---- MODULE Spec2Model ----
(***************************************************************************)
(* Model of isBucky/spotify-downloader: SpotifyDownloader.start, the       *)
(* operator loop of startPrompts, download, the recursive page traversal   *)
(* of downloadMassive, the per-track searchInYoutubeAndDownload and the    *)
(* yt-dlp promise of YoutubeClient.downloadMp3 (Spec); and, each on its    *)
(* own, SpotifyClient.parseSpotifyUrl (SpecUrl), sortVideos (SpecRank, and *)
(* SpecAge for ages that differ in their unit only) and the SpotifyClient  *)
(* as any caller may use it, with the timer of refreshToken (SpecClient).  *)
(* Spec follows the program for as long as the timer set by start is not   *)
(* due; what the timer does is followed in SpecClient.                     *)
(* The folder prompt that startPrompts awaits before it asks for the URL   *)
(* is followed on its own in SpecFolder, key by key; in Spec the folder    *)
(* and the URL are given in one step.                                      *)
(*                                                                         *)
(* Every await of the code is a point where the event loop may run another *)
(* handler, so every action below is one handler of the event loop: the    *)
(* settlement of one awaited call together with everything the code runs   *)
(* synchronously (and in the microtasks that follow) until the next await  *)
(* on an outside event.                                                    *)
(*                                                                         *)
(* Assumptions on the collaborators (not on the code): every track item    *)
(* carries at least one artist, as the catalog API guarantees; the yt-dlp  *)
(* binary exists, so spawn emits no 'error' event; the catalog answers     *)
(* with the body asked for only to a request that bears a valid token;     *)
(* the folder prompt renders again after every keypress, so that the       *)
(* handler of a key sees the state the key before it left, and the file    *)
(* system does not change while the prompt is shown.                       *)
(***************************************************************************)
EXTENDS Integers, Sequences, FiniteSets, TLC

\* ------------------------------------------------------------------ bounds
MaxTotal == 21     \* largest collection (items, tracks or not)
MaxTracks == 3     \* most items of type 'track' in one collection
MaxVideos == 2     \* most candidates in one search answer
MaxRanked == 3     \* most videos in one list given to sortVideos
MaxCount == 3      \* largest N of an 'N <unit> ago'
MaxTokens == 2     \* most access tokens the token endpoint issues

\* ------------------------------------------------------- program constants
PageSize == 10     \* limit: 10 and offset + 10 of album.tracks / playlist.tracks

NoNext == 0 - 1    \* next: null

ItemTypes == {"track", "episode"}
UrlTypes == {"playlist", "album", "track", "artist", "unknown"}

Min(a, b) == IF a < b THEN a ELSE b
Abs(x) == IF x < 0 THEN 0 - x ELSE x
Range(s) == {s[i] : i \in DOMAIN s}

VARIABLES
    pc,        \* where startPrompts / download / downloadMassive is suspended
    kind,      \* type of the parsed URL of the running download
    items,     \* the collection behind the URL's id: the type of each item
    requests,  \* offsets of the page requests of this download, in order
    pending,   \* offset of the page request in flight, or NoNext
    frames,    \* one entry per downloadMassive call: its page (result)
    level,     \* the frame whose Promise.all is awaited; 0 when none is
    fetch,     \* per item: state of its searchInYoutubeAndDownload call
    lookup,    \* per item: how its youtube.search settled: "threw", "answered"
    proc,      \* per item: state of its yt-dlp process
    answer,    \* per item: the videos its search resolved with
    handed,    \* per item: the url handed to downloadMp3
    failed,    \* the catalog call of this download that threw, or "none"
    outcome,   \* how the last download ended: "none", "returned", "threw"
    spotifyUrl, \* the string given as URL, by its parts
    info,      \* what parseSpotifyUrl returned for it
    candidates, \* the videos given to sortVideos
    sorted,    \* what sortVideos returned for them
    started,   \* SpotifyClient.started
    token,     \* global.spotifyToken
    call,      \* the last catalog call of a caller of the client
    timer,     \* the setTimeout of refreshToken: "none", "scheduled", "inflight"
    logged,    \* what download itself has logged since the console was cleared
    dir,       \* the directory given to the fetches of the running download
    currentDir, \* folderPrompt: the directory shown, as the names on its path
    cursor,    \* folderPrompt: index (from 0) of the choice pointed at
    selected,  \* folderPrompt: the path done was called with, <<>> for null
    readOnly   \* the folders the process has no write permission for

vars == <<pc, kind, items, requests, pending, frames, level, fetch, lookup,
          proc, answer, handed, failed, outcome, spotifyUrl, info, candidates,
          sorted, started, token, call, timer, logged, dir, currentDir, cursor,
          selected, readOnly>>

\* The state of the folder prompt and of the file system it reads.
folderVars == <<currentDir, cursor, selected, readOnly>>

\* ------------------------------------------------------------ the catalog
RECURSIVE Sum(_)
Sum(s) == IF s = <<>> THEN 0 ELSE s[1] + Sum(Tail(s))

\* The collections a download may meet: any number n of items up to MaxTotal,
\* of which at most MaxTracks are of type 'track'. The code handles a page as
\* a whole, so what matters is how many tracks each page holds: page p holds
\* c[p] tracks, as its last items, behind the items of another type that
\* parseTracks has to drop.
PagesOf(n) == (n + PageSize - 1) \div PageSize
PageEnd(n, p) == Min(p * PageSize, n)
CollectionOf(n, c) ==
    [i \in 1..n |->
        LET p == ((i - 1) \div PageSize) + 1
        IN  IF i > PageEnd(n, p) - c[p] THEN "track" ELSE "episode"]
Collections ==
    UNION {{CollectionOf(n, c) :
                c \in {d \in [1..PagesOf(n) -> 0..MaxTracks] :
                          /\ Sum(d) <= MaxTracks
                          /\ \A p \in 1..PagesOf(n) :
                                d[p] <= PageEnd(n, p) - (p - 1) * PageSize}} :
           n \in 0..MaxTotal}

\* Mutant of parseTracks: the type filter is missing.
parseTracksUnfiltered(positions) == positions

\* SpotifyClient.parseTracks: tracks.filter((t) => t.type === 'track').
\* A page's items are given by their positions in the collection.
parseTracks(positions) == SelectSeq(positions, LAMBDA i : items[i] = "track")

\* The catalog API's answer to limit: 10, offset: offset.
ApiPage(offset) ==
    LET total == Len(items)
        last == Min(offset + PageSize, total)
    IN  [total |-> total,
         offset |-> offset,
         items |-> [j \in 1..(IF last > offset THEN last - offset ELSE 0) |-> offset + j]]

\* SpotifyAlbum.tracks: the PlaylistResult built from the API's answer.
AlbumTracks(offset) ==
    LET album == ApiPage(offset)
    IN  [total |-> album.total,
         length |-> Len(album.items),
         offset |-> album.offset,
         next |-> IF offset + 10 > album.total THEN NoNext ELSE offset + 10,
         tracks |-> parseTracks(album.items)]

\* Mutant of PlaylistTracks: next tests offset instead of offset + 10, so a
\* page beyond the last one is requested.
PlaylistTracksLate(offset) ==
    LET total == Len(items)
        first == Min(offset, total)
        last == Min(offset + PageSize, total)
    IN  [total |-> total,
         length |-> last - first,
         offset |-> offset,
         next |-> IF offset > total THEN NoNext ELSE offset + 10,
         tracks |-> SelectSeq([j \in 1..(last - first) |-> first + j],
                              LAMBDA i : items[i] = "track")]

\* SpotifyPlaylist.tracks: the PlaylistResult built from the API's answer.
PlaylistTracks(offset) ==
    LET playlist == ApiPage(offset)
    IN  [total |-> playlist.total,
         length |-> Len(playlist.items),
         offset |-> playlist.offset,
         next |-> IF offset + 10 > playlist.total THEN NoNext ELSE offset + 10,
         tracks |-> parseTracks(playlist.items)]

\* type === 'album' ? this.spotify.album.tracks(..) : this.spotify.playlist.tracks(..)
TracksOf(type, offset) ==
    IF type = "album" THEN AlbumTracks(offset) ELSE PlaylistTracks(offset)

\* !result.next of addPromises: null and 0 are both falsy.
NoMorePages(result) == result.next = NoNext \/ result.next = 0

\* ------------------------------------------------------- the fetch states
\* fetch[t]: "none"        never invoked
\*           "searching"   youtube.search awaited
\*           "downloading" downloadMp3 awaited
\*           "downloaded"  'Song downloaded' logged, call resolved
\*           "nosong"      'No song found' logged, call resolved
\*           "error"       'Error downloading song' logged, call resolved
Settled(s) == s \in {"downloaded", "nosong", "error"}
InFlight(s) == s \in {"searching", "downloading"}

\* promiseFactories.map((f) => f()): every factory of the frame is invoked;
\* each call runs up to its await of youtube.search.
StartAll(f, tracks) ==
    [t \in DOMAIN f |-> IF t \in Range(tracks) THEN "searching" ELSE f[t]]

\* Mutant of Join: the frame resolves as soon as one of its calls has
\* settled (Promise.race / Promise.any in place of Promise.all).
RECURSIVE JoinRace(_, _, _)
JoinRace(fr, lv, f) ==
    IF lv = 0 THEN [level |-> 0, fetch |-> f]
    ELSE IF fr[lv].tracks = <<>> \/ \E t \in Range(fr[lv].tracks) : Settled(f[t])
         THEN IF lv = 1 THEN [level |-> 0, fetch |-> f]
              ELSE JoinRace(fr, lv - 1, StartAll(f, fr[lv - 1].tracks))
         ELSE [level |-> lv, fetch |-> f]

\* Mutant of Join: only the frame of the last page awaits its Promise.all;
\* the frames before it resolve without invoking their factories.
JoinLast(fr, lv, f) ==
    IF lv = 0 \/ \A t \in Range(fr[lv].tracks) : Settled(f[t])
    THEN [level |-> 0, fetch |-> f]
    ELSE [level |-> lv, fetch |-> f]

\* Promise.all of frame lv and what follows it: when every call of the frame
\* has settled, the frame's downloadMassive resolves, which resolves the
\* addPromises awaited by the frame before it, which then invokes its own
\* factories; frame 1 resolving resolves the downloadMassive that download
\* awaits.
RECURSIVE Join(_, _, _)
Join(fr, lv, f) ==
    IF lv = 0 THEN [level |-> 0, fetch |-> f]
    ELSE IF \A t \in Range(fr[lv].tracks) : Settled(f[t])
         THEN IF lv = 1 THEN [level |-> 0, fetch |-> f]
              ELSE Join(fr, lv - 1, StartAll(f, fr[lv - 1].tracks))
         ELSE [level |-> lv, fetch |-> f]

\* ------------------------------------------------------------- the videos
\* A yts.VideoSearchResult: url, views, seconds and ago. ago is <<>> when it
\* is undefined and <<n, unit>> for the string 'n unit ago'.
Urls == 1..MaxVideos
Videos ==
    [url : Urls, views : {100, 150}, seconds : {180, 240},
     ago : {<<>>, <<2, "years">>}]

\* The answers of a search: lists of up to MaxVideos videos with distinct urls.
RECURSIVE VideoLists(_)
VideoLists(k) ==
    IF k = 0 THEN {<<>>}
    ELSE LET shorter == VideoLists(k - 1)
             longest == {l \in shorter : Len(l) = k - 1}
             fresh(l) == {v \in Videos : \A i \in 1..Len(l) : l[i].url # v.url}
         IN  shorter \cup UNION {{Append(l, v) : v \in fresh(l)} : l \in longest}

\* getTimeValue of sortVideos, in minutes instead of days (x 24 * 60) so that
\* the hour and minute cases stay integers.
getTimeValue(ago) ==
    LET value == ago[1]
        unit == ago[2]
    IN  CASE unit \in {"year", "years"} -> value * 365 * 1440
          [] unit \in {"month", "months"} -> value * 30 * 1440
          [] unit \in {"week", "weeks"} -> value * 7 * 1440
          [] unit \in {"day", "days"} -> value * 1440
          [] unit \in {"hour", "hours"} -> value * 60
          [] unit \in {"minute", "minutes"} -> value
          [] unit = "" -> 0
          [] OTHER -> value * 1440

\* Mutant of compare: a video without ago goes before one that has it.
compareAbsentFirst(a, b) ==
    IF a.ago = <<>> /\ b.ago = <<>>
    THEN LET viewsDiff == b.views - a.views
         IN  IF 5 * Abs(viewsDiff) < b.views
             THEN a.seconds - b.seconds
             ELSE viewsDiff
    ELSE IF a.ago = <<>> THEN 0 - 1
    ELSE IF b.ago = <<>> THEN 1
    ELSE LET aDays == getTimeValue(a.ago)
             bDays == getTimeValue(b.ago)
         IN  IF 10 * b.views > 13 * a.views \/ 10 * b.views < 7 * a.views
             THEN b.views - a.views
             ELSE IF Abs(aDays - bDays) < 30 * 1440
                  THEN a.seconds - b.seconds
                  ELSE aDays - bDays

\* Mutant of compare: videos of close views are ordered by age alone.
compareAgeOnly(a, b) ==
    IF a.ago = <<>> /\ b.ago = <<>>
    THEN LET viewsDiff == b.views - a.views
         IN  IF 5 * Abs(viewsDiff) < b.views
             THEN a.seconds - b.seconds
             ELSE viewsDiff
    ELSE IF a.ago = <<>> THEN 1
    ELSE IF b.ago = <<>> THEN 0 - 1
    ELSE LET aDays == getTimeValue(a.ago)
             bDays == getTimeValue(b.ago)
         IN  IF 10 * b.views > 13 * a.views \/ 10 * b.views < 7 * a.views
             THEN b.views - a.views
             ELSE aDays - bDays

\* The comparator handed to videos.sort in sortVideos. Only the sign of the
\* result matters to the sort. b.views * 0.2 and b.views / a.views are
\* compared after multiplying out (5 * |diff| < b.views, 10 * b > 13 * a,
\* 10 * b < 7 * a), which agrees with the floating-point result also for
\* a.views = 0 (Infinity, or NaN for which both tests are false).
compare(a, b) ==
    IF a.ago = <<>> /\ b.ago = <<>>
    THEN LET viewsDiff == b.views - a.views
         IN  IF 5 * Abs(viewsDiff) < b.views
             THEN a.seconds - b.seconds
             ELSE viewsDiff
    ELSE IF a.ago = <<>> THEN 1
    ELSE IF b.ago = <<>> THEN 0 - 1
    ELSE LET aDays == getTimeValue(a.ago)
             bDays == getTimeValue(b.ago)
         IN  IF 10 * b.views > 13 * a.views \/ 10 * b.views < 7 * a.views
             THEN b.views - a.views
             ELSE IF Abs(aDays - bDays) < 30 * 1440
                  THEN a.seconds - b.seconds
                  ELSE aDays - bDays

\* Array.prototype.sort as the engine runs it on a short array (fewer than 32
\* elements, one run): the leading run is counted, reversed when it is
\* strictly descending, and the rest is inserted by binary insertion.
RECURSIVE CountRun(_, _, _)
CountRun(a, idx, desc) ==
    IF idx > Len(a) THEN idx - 1
    ELSE LET order == compare(a[idx], a[idx - 1])
         IN  IF (desc /\ order >= 0) \/ (~desc /\ order < 0)
             THEN idx - 1
             ELSE CountRun(a, idx + 1, desc)

Reverse(s) == [i \in 1..Len(s) |-> s[Len(s) + 1 - i]]

RECURSIVE BinarySearch(_, _, _, _)
BinarySearch(a, pivot, left, right) ==
    IF left >= right THEN left
    ELSE LET mid == left + ((right - left) \div 2)
         IN  IF compare(pivot, a[mid + 1]) < 0
             THEN BinarySearch(a, pivot, left, mid)
             ELSE BinarySearch(a, pivot, mid + 1, right)

RECURSIVE BinaryInsertionSort(_, _)
BinaryInsertionSort(a, start) ==
    IF start >= Len(a) THEN a
    ELSE LET pivot == a[start + 1]
             left == BinarySearch(a, pivot, 0, start)
             moved == [i \in 1..Len(a) |->
                         IF i <= left THEN a[i]
                         ELSE IF i = left + 1 THEN pivot
                         ELSE IF i <= start + 1 THEN a[i - 1]
                         ELSE a[i]]
         IN  BinaryInsertionSort(moved, start + 1)

\* SpotifyDownloader.sortVideos: videos.sort(comparator).
sortVideos(videos) ==
    IF Len(videos) < 2 THEN videos
    ELSE LET desc == compare(videos[2], videos[1]) < 0
             run == CountRun(videos, 3, desc)
             made == IF desc
                     THEN Reverse(SubSeq(videos, 1, run)) \o
                          SubSeq(videos, run + 1, Len(videos))
                     ELSE videos
         IN  BinaryInsertionSort(made, run)

\* ---------------------------------------------------------- parseSpotifyUrl
\* A string is the sequence of its characters, so that the two regular
\* expressions of parseSpotifyUrl are matched character by character.
Lower == {"a", "b", "c", "d", "e", "f", "g", "h", "i", "j", "k", "l", "m", "n", "o", "p", "q", "r", "s", "t", "u", "v", "w", "x", "y", "z"}
Upper == {"A", "B", "C", "D", "E", "F", "G", "H", "I", "J", "K", "L", "M", "N", "O", "P", "Q", "R", "S", "T", "U", "V", "W", "X", "Y", "Z"}
Digit == {"0", "1", "2", "3", "4", "5", "6", "7", "8", "9"}
IdChars == Lower \cup Upper \cup Digit     \* [a-zA-Z0-9]
IdLength == 22                             \* {22}
LineTerminators == {"\n", "\r"}            \* what . does not match

Http == <<"h", "t", "t", "p">>
ColonSlashes == <<":", "/", "/">>
OpenDot == <<"o", "p", "e", "n", ".">>
SpotifyComSlash == <<"s", "p", "o", "t", "i", "f", "y", ".", "c", "o", "m", "/">>
IntlDash == <<"i", "n", "t", "l", "-">>
SpotifyColon == <<"s", "p", "o", "t", "i", "f", "y", ":">>
PlaylistChars == <<"p", "l", "a", "y", "l", "i", "s", "t">>
TrackChars == <<"t", "r", "a", "c", "k">>
AlbumChars == <<"a", "l", "b", "u", "m">>
ArtistChars == <<"a", "r", "t", "i", "s", "t">>

\* s holds the literal lit at position p.
HasAt(s, p, lit) ==
    /\ p + Len(lit) - 1 <= Len(s)
    /\ SubSeq(s, p, p + Len(lit) - 1) = lit

\* The position after the longest run of characters of class that starts at
\* p (p itself when there is none): the greedy class+ of a regular expression.
RECURSIVE RunEnd(_, _, _)
RunEnd(s, p, class) ==
    IF p <= Len(s) /\ s[p] \in class THEN RunEnd(s, p + 1, class) ELSE p

\* ([a-z]+) sep ([a-zA-Z0-9]{22}) from position p up to the end of s, with
\* (?:\?.*)? before the end when query holds. The groups <<kind, id>> of the
\* match, or <<>> when there is none.
MatchKindId(s, p, sep, query) ==
    LET k == RunEnd(s, p, Lower)
        i == k + Len(sep)
        e == i + IdLength
    IN  IF /\ k > p
           /\ HasAt(s, k, sep)
           /\ e - 1 <= Len(s)
           /\ \A j \in i..(e - 1) : s[j] \in IdChars
           /\ \/ e = Len(s) + 1
              \/ /\ query
                 /\ s[e] = "?"
                 /\ \A j \in (e + 1)..Len(s) : s[j] \notin LineTerminators
        THEN <<SubSeq(s, p, k - 1), SubSeq(s, i, e - 1)>>
        ELSE <<>>

\* spotifyWebUrlRegex tried at position p:
\* https?:\/\/(?:open\.)?spotify\.com\/(?:intl-[a-z]+\/)?([a-z]+)\/([a-zA-Z0-9]{22})(?:\?.*)?$
\* The optional group of the locale is tried first and given up when the
\* rest does not match after it.
WebMatchAt(s, p) ==
    LET a == p + Len(Http)
        b == IF HasAt(s, a, <<"s">>) THEN a + 1 ELSE a
        c == b + Len(ColonSlashes)
        d == IF HasAt(s, c, OpenDot) THEN c + Len(OpenDot) ELSE c
        e == d + Len(SpotifyComSlash)
        l == RunEnd(s, e + Len(IntlDash), Lower)
        locale == HasAt(s, e, IntlDash) /\ l > e + Len(IntlDash) /\ HasAt(s, l, <<"/">>)
        after == IF locale THEN MatchKindId(s, l + 1, <<"/">>, TRUE) ELSE <<>>
    IN  IF HasAt(s, p, Http) /\ HasAt(s, b, ColonSlashes) /\ HasAt(s, d, SpotifyComSlash)
        THEN IF after # <<>> THEN after ELSE MatchKindId(s, e, <<"/">>, TRUE)
        ELSE <<>>

\* url.match(spotifyWebUrlRegex): the expression has no ^, so the leftmost
\* position where it matches is taken.
WebMatch(s) ==
    LET ps == {p \in 1..Len(s) : WebMatchAt(s, p) # <<>>}
    IN  IF ps = {} THEN <<>>
        ELSE WebMatchAt(s, CHOOSE p \in ps : \A q \in ps : p <= q)

\* url.match(spotifyUriRegex): /^spotify:([a-z]+):([a-zA-Z0-9]{22})$/
UriMatch(s) ==
    IF HasAt(s, 1, SpotifyColon)
    THEN MatchKindId(s, 1 + Len(SpotifyColon), <<":">>, FALSE)
    ELSE <<>>

\* const validTypes = ['playlist', 'track', 'album', 'artist']
validTypes == {PlaylistChars, TrackChars, AlbumChars, ArtistChars}

\* The SpotifyUrlType a valid typeCandidate is cast to.
TypeName(chars) ==
    CASE chars = PlaylistChars -> "playlist"
      [] chars = TrackChars -> "track"
      [] chars = AlbumChars -> "album"
      [] chars = ArtistChars -> "artist"

\* Mutant of parseSpotifyUrl: only the URI expression is tried.
parseSpotifyUriOnly(u) ==
    LET match == UriMatch(u)
    IN  IF match = <<>>
        THEN [type |-> "unknown", id |-> <<>>, originalUrl |-> u]
        ELSE [id |-> match[2],
              type |-> IF match[1] \in validTypes THEN TypeName(match[1]) ELSE "unknown",
              originalUrl |-> u]

parseSpotifyUrl(u) ==
    LET web == WebMatch(u)
        match == IF web # <<>> THEN web ELSE UriMatch(u)
    IN  IF match = <<>>
        THEN [type |-> "unknown", id |-> <<>>, originalUrl |-> u]
        ELSE [id |-> match[2],
              type |-> IF match[1] \in validTypes THEN TypeName(match[1]) ELSE "unknown",
              originalUrl |-> u]

\* ------------------------------------------------- the strings given as URL
Https == <<"h", "t", "t", "p", "s", ":", "/", "/">>
HttpPlain == <<"h", "t", "t", "p", ":", "/", "/">>
Ftp == <<"f", "t", "p", ":", "/", "/">>
OpenHost == <<"o", "p", "e", "n", ".", "s", "p", "o", "t", "i", "f", "y", ".", "c", "o", "m">>
BareHost == <<"s", "p", "o", "t", "i", "f", "y", ".", "c", "o", "m">>
PlayHost == <<"p", "l", "a", "y", ".", "s", "p", "o", "t", "i", "f", "y", ".", "c", "o", "m">>
LocalePt == <<"i", "n", "t", "l", "-", "p", "t", "/">>
LocaleUpper == <<"i", "n", "t", "l", "-", "P", "T", "/">>
ShowChars == <<"s", "h", "o", "w">>
CapitalTrackChars == <<"T", "r", "a", "c", "k">>
Id22 == <<"4", "u", "L", "U", "6", "h", "M", "C", "j", "M", "I", "7", "5", "M", "1", "A", "2", "t", "K", "U", "Q", "C">>
Id21 == <<"4", "u", "L", "U", "6", "h", "M", "C", "j", "M", "I", "7", "5", "M", "1", "A", "2", "t", "K", "U", "Q">>
Id23 == <<"4", "u", "L", "U", "6", "h", "M", "C", "j", "M", "I", "7", "5", "M", "1", "A", "2", "t", "K", "U", "Q", "C", "7">>
IdDashed == <<"4", "u", "L", "U", "6", "h", "M", "C", "j", "M", "-", "7", "5", "M", "1", "A", "2", "t", "K", "U", "Q", "C">>
QuerySi == <<"?", "s", "i", "=", "1">>
PathMore == <<"/", "x">>
QueryTwoLines == <<"?", "a", "\n", "b">>
Hello == <<"h", "e", "l", "l", "o">>

\* The strings explored, by their parts. form "web": lead scheme host /
\* locale kind / id tail; form "uri": lead spotify: kind : id tail; form
\* "text": lead alone.
WebShapes ==
    [form : {"web"}, lead : {<<>>, <<"x">>}, scheme : {Https, HttpPlain, Ftp},
     host : {OpenHost, BareHost, PlayHost}, locale : {<<>>, LocalePt, LocaleUpper},
     kind : {PlaylistChars, TrackChars, AlbumChars, ArtistChars, ShowChars,
             CapitalTrackChars},
     id : {Id22, Id21, Id23, IdDashed},
     tail : {<<>>, QuerySi, PathMore, QueryTwoLines}]
UriShapes ==
    [form : {"uri"}, lead : {<<>>, <<"x">>}, scheme : {SpotifyColon},
     host : {<<>>}, locale : {<<>>},
     kind : {PlaylistChars, TrackChars, AlbumChars, ArtistChars, ShowChars,
             CapitalTrackChars},
     id : {Id22, Id21, Id23, IdDashed},
     tail : {<<>>, QuerySi}]
TextShapes ==
    [form : {"text"}, lead : {<<>>, Hello}, scheme : {<<>>}, host : {<<>>},
     locale : {<<>>}, kind : {<<>>}, id : {<<>>}, tail : {<<>>}]
UrlShapes == WebShapes \cup UriShapes \cup TextShapes

\* The string of a shape.
Text(shape) ==
    CASE shape.form = "web" ->
           shape.lead \o shape.scheme \o shape.host \o <<"/">> \o shape.locale \o
           shape.kind \o <<"/">> \o shape.id \o shape.tail
      [] shape.form = "uri" ->
           shape.lead \o shape.scheme \o shape.kind \o <<":">> \o shape.id \o shape.tail
      [] shape.form = "text" -> shape.lead

\* What the operator answers to urlPrompt in the operator loop: one string
\* per kind the code tells apart, and a string that is no URL.
PromptUrls ==
    {s \in WebShapes :
        /\ s.lead = <<>> /\ s.scheme = Https /\ s.host = OpenHost
        /\ s.locale = <<>> /\ s.id = Id22 /\ s.tail = <<>>
        /\ s.kind # CapitalTrackChars}
    \cup {s \in TextShapes : s.lead = Hello}

\* url before download has parsed anything.
NotParsed == [id |-> <<>>, type |-> "none", originalUrl |-> <<>>]
NoShape == [form |-> "text", lead |-> <<>>, scheme |-> <<>>, host |-> <<>>,
            locale |-> <<>>, kind |-> <<>>, id |-> <<>>, tail |-> <<>>]

\* ------------------------------------------- the videos given to sortVideos
\* Views 20 %, 40 % and 50 % apart, two durations, no ago and three ages that
\* are 16, 39 and 55 days apart.
RankedFeatures ==
    [views : {100, 120, 140, 150}, seconds : {180, 240},
     ago : {<<>>, <<5, "days">>, <<3, "weeks">>, <<2, "months">>}]

\* A list given to sortVideos, from the features of its videos: the url of
\* a video is its place in the list, as the search returned it.
RankedList(f) ==
    [i \in DOMAIN f |-> [url |-> i, views |-> f[i].views,
                         seconds |-> f[i].seconds, ago |-> f[i].ago]]

\* The units of an 'N <unit> ago' of a search result, from the shortest to
\* the longest, each in its singular and its plural.
AgoUnits == <<{"second", "seconds"}, {"minute", "minutes"}, {"hour", "hours"},
              {"day", "days"}, {"week", "weeks"}, {"month", "months"},
              {"year", "years"}>>
AgoWords == UNION Range(AgoUnits)
UnitOrder(unit) == CHOOSE k \in DOMAIN AgoUnits : unit \in AgoUnits[k]

\* Two videos alike but for the unit of their ago.
AgedPair(n, u, v) ==
    RankedList(<<[views |-> 100, seconds |-> 180, ago |-> <<n, u>>],
                 [views |-> 100, seconds |-> 180, ago |-> <<n, v>>]>>)

\* -------------------------------------------------------- the Spotify client
\* A message is the sequence of its words.
Includes(message, part) == \E p \in 1..Len(message) : HasAt(message, p, part)

ResourceNotFound == <<"Resource", "not", "found">>
InvalidBase62Id == <<"Invalid", "base62", "id">>
InvalidID == <<"Invalid", "ID">>
ErrorGettingInformation == <<"Error", "getting", "information,", "error:">>
NotStarted == <<"The", "Spotify", "client", "has", "not", "been", "started">>

\* SpotifyClient.parseError: the message of the error it throws.
parseError(error) ==
    IF error.status = 404 /\ Includes(error.message, ResourceNotFound)
    THEN ResourceNotFound
    ELSE IF error.status = 400 /\ Includes(error.message, InvalidBase62Id)
         THEN InvalidID
         ELSE ErrorGettingInformation \o error.message

\* The methods of the client that request the catalog, and the message of
\* the error each one throws from its catch.
Methods ==
    {"track.get", "artist.get", "album.get", "album.tracks", "playlist.get",
     "playlist.tracks"}
CatchMessage(method) ==
    CASE method = "track.get" -> <<"Error", "getting", "track">>
      [] method = "artist.get" -> <<"Error", "getting", "artist">>
      [] method = "album.get" -> <<"Error", "getting", "album", "tracks">>
      [] method = "album.tracks" -> <<"Error", "getting", "album">>
      [] method = "playlist.get" -> <<"Error", "getting", "playlist">>
      [] method = "playlist.tracks" -> <<"Error", "getting", "playlist", "tracks">>

\* What the catalog may answer to a request: no answer at all (the request
\* rejects), a body with an error, or the body asked for.
FetchFailed == <<"fetch", "failed">>
UpstreamMessages ==
    {ResourceNotFound, InvalidBase62Id, <<"Not", "found.">>,
     <<"Request", "failed:", "Resource", "not", "found">>,
     <<"The", "access", "token", "expired">>}
Replies ==
    [kind : {"error"}, status : {400, 401, 404}, message : UpstreamMessages]
    \cup [kind : {"rejected", "body"}, status : {0}, message : {<<>>}]

NoReply == [kind |-> "none", status |-> 0, message |-> <<>>]

\* global.spotifyToken before the first access_token, and after a body that
\* holds none: undefined. The access tokens are numbered as they are issued.
Undefined == 0

\* bearer is the token of the Authorization header of the request sent.
NoCall ==
    [method |-> "none", sent |-> FALSE, reply |-> NoReply, threw |-> FALSE,
     message |-> <<>>, cause |-> <<>>, bearer |-> Undefined]

\* Mutant of Request: the method without its check of started.
RequestUnguarded(method, reply) ==
    IF reply.kind = "rejected"
    THEN [method |-> method, sent |-> TRUE, reply |-> reply, threw |-> TRUE,
          message |-> CatchMessage(method), cause |-> FetchFailed,
          bearer |-> token]
    ELSE IF reply.kind = "error"
         THEN [method |-> method, sent |-> TRUE, reply |-> reply, threw |-> TRUE,
               message |-> CatchMessage(method), cause |-> parseError(reply),
          bearer |-> token]
         ELSE [method |-> method, sent |-> TRUE, reply |-> reply, threw |-> FALSE,
               message |-> <<>>, cause |-> <<>>, bearer |-> token]

\* Mutant of Request: the rest manager is built once, with the first token,
\* and every request is sent with its headers.
RequestCached(method, reply) ==
    IF ~started
    THEN [method |-> method, sent |-> FALSE, reply |-> NoReply, threw |-> TRUE,
          message |-> NotStarted, cause |-> <<>>, bearer |-> Undefined]
    ELSE IF reply.kind = "rejected"
         THEN [method |-> method, sent |-> TRUE, reply |-> reply, threw |-> TRUE,
               message |-> CatchMessage(method), cause |-> FetchFailed,
               bearer |-> Min(token, 1)]
         ELSE IF reply.kind = "error"
              THEN [method |-> method, sent |-> TRUE, reply |-> reply, threw |-> TRUE,
                    message |-> CatchMessage(method), cause |-> parseError(reply),
                    bearer |-> Min(token, 1)]
              ELSE [method |-> method, sent |-> TRUE, reply |-> reply, threw |-> FALSE,
                    message |-> <<>>, cause |-> <<>>, bearer |-> Min(token, 1)]

\* One call of a method, to which the catalog would answer reply: whether a
\* request was sent, and the error the caller receives. Without started the
\* method throws before its try; an error thrown inside the try (by the
\* request, or by parseError for an error body) is caught and becomes the
\* cause of the error of the catch. The request is built by the rest getter,
\* which reads global.spotifyToken anew at every access. With NoReply the
\* call is the method up to its await of the request.
Request(method, reply) ==
    IF ~started
    THEN [method |-> method, sent |-> FALSE, reply |-> NoReply, threw |-> TRUE,
          message |-> NotStarted, cause |-> <<>>, bearer |-> Undefined]
    ELSE IF reply.kind = "rejected"
         THEN [method |-> method, sent |-> TRUE, reply |-> reply, threw |-> TRUE,
               message |-> CatchMessage(method), cause |-> FetchFailed,
          bearer |-> token]
         ELSE IF reply.kind = "error"
              THEN [method |-> method, sent |-> TRUE, reply |-> reply, threw |-> TRUE,
                    message |-> CatchMessage(method), cause |-> parseError(reply),
          bearer |-> token]
              ELSE [method |-> method, sent |-> TRUE, reply |-> reply, threw |-> FALSE,
                    message |-> <<>>, cause |-> <<>>, bearer |-> token]

\* What the token endpoint may do with the request of refreshToken: the
\* fetch rejects, the body is no JSON, the body is an error without
\* access_token, or the body carries access_token and expires_in.
TokenReplies == {"unreachable", "notjson", "errorbody", "token"}

\* SpotifyClient.refreshToken: the catch rethrows what fetch or json threw;
\* otherwise global.spotifyToken is data.access_token, whatever the body is.
\* After the assignment setTimeout schedules the next refreshToken, also
\* when expires_in is missing (the delay is NaN then, and the timer is due
\* at once). A throw leaves no timer behind.
refreshToken(reply) ==
    IF reply \in {"unreachable", "notjson"}
    THEN [threw |-> TRUE, token |-> token, timer |-> "none"]
    ELSE [threw |-> FALSE,
          token |-> IF reply = "token" THEN token + 1 ELSE Undefined,
          timer |-> "scheduled"]

\* SpotifyClient.start: await this.refreshToken(); this.started = true.
start(reply) ==
    LET r == refreshToken(reply)
    IN  [threw |-> r.threw, token |-> r.token, timer |-> r.timer,
         started |-> IF r.threw THEN started ELSE TRUE]

\* ------------------------------------------------------------ initial state
\* No download is running.
NoDownload ==
    /\ kind = "none"
    /\ items = <<>>
    /\ requests = <<>>
    /\ pending = NoNext
    /\ frames = <<>>
    /\ level = 0
    /\ fetch = <<>>
    /\ lookup = <<>>
    /\ proc = <<>>
    /\ answer = <<>>
    /\ handed = <<>>
    /\ failed = "none"
    /\ outcome = "none"
    /\ logged = <<>>
    /\ dir = "none"

\* No string has been given as URL.
NoUrl == spotifyUrl = NoShape /\ info = NotParsed

\* No list has been given to sortVideos.
NoRanking == candidates = <<>> /\ sorted = <<>>

\* The client after its constructor: this.started = false, and no token yet.
NewClient ==
    started = FALSE /\ token = Undefined /\ call = NoCall /\ timer = "none"

\* No folder prompt is shown.
NoFolder == currentDir = <<>> /\ cursor = 0 /\ selected = <<>> /\ readOnly = {}

\* new SpotifyDownloader().start() up to its await of this.spotify.start().
Init ==
    /\ pc = "start"
    /\ NoDownload
    /\ NoUrl
    /\ NoRanking
    /\ NewClient
    /\ NoFolder

\* -------------------------------------------------------------------- start
\* this.spotify.start() settles: when refreshToken threw, start rejects and
\* startPrompts is not called; otherwise startPrompts runs up to its prompts.
StartSettle ==
    /\ pc = "start"
    /\ \E reply \in TokenReplies :
         LET r == start(reply)
         IN  /\ started' = r.started
             /\ token' = r.token
             /\ timer' = r.timer
             /\ pc' = IF r.threw THEN "startfailed" ELSE "prompt"
    /\ UNCHANGED <<kind, items, requests, pending, frames, level, fetch, lookup,
                   proc, answer, handed, failed, outcome, spotifyUrl, info,
                   candidates, sorted, call, logged, dir>>
    /\ UNCHANGED folderVars

\* --------------------------------------------------------------- download
\* Mutant of DownloadCatch: download without its try / catch; the error
\* rejects download and with it startPrompts.
DownloadNoCatch == [pc |-> "crashed", outcome |-> "threw"]

\* The try / catch around the switch of download: the error is logged and
\* download returns normally to startPrompts, which goes on to its confirm.
DownloadCatch == [pc |-> "confirm", outcome |-> "returned"]

\* What the settlement of a fetch leads to: under Promise.all the join; for
\* a track URL the return of download.
AfterSettle(f) ==
    IF pc = "join"
    THEN LET j == Join(frames, level, f)
         IN  [pc |-> IF j.level = 0 THEN "confirm" ELSE "join",
              level |-> j.level, fetch |-> j.fetch,
              outcome |-> IF j.level = 0 THEN "returned" ELSE outcome]
    ELSE IF pc = "single" /\ \A t \in DOMAIN f : Settled(f[t])
         THEN [pc |-> "confirm", level |-> level, fetch |-> f, outcome |-> "returned"]
         ELSE [pc |-> pc, level |-> level, fetch |-> f, outcome |-> outcome]

\* What download logs, by the words that tell the messages apart.
SearchingFor(type) == <<"Searching", "for", IF type = "track" THEN "song" ELSE type>>
Found(type) ==
    CASE type = "playlist" -> <<"Playlist", "found!">>
      [] type = "album" -> <<"Album", "found!">>
      [] type = "track" -> <<"Song", "found:">>
InvalidURL == <<"Invalid", "URL">>
ErrorLog == <<"Error:">>

\* Mutant of DirOf: the fetch of a track is given a directory of its own
\* under dir, like the fetches of a collection.
DirOfNamed(type) == "dir/name"

\* The directory download gives on: dir itself to the fetch of a track,
\* `${dir}/${playlist.name}` or `${dir}/${album.name}` to downloadMassive.
DirOf(type) == IF type = "track" THEN "dir" ELSE "dir/name"

\* Mutant of Reported: the switch ends in a default case that reports every
\* type it does not download.
ReportedByDefault(type) == <<InvalidURL>>

\* What the switch logs for a type it starts no download for: 'Invalid URL'
\* in case 'unknown'; 'artist' has no case and the switch has no default.
Reported(type) == IF type = "unknown" THEN <<InvalidURL>> ELSE <<>>

\* startPrompts up to its await of download, and download up to its first
\* await: the operator gives a folder and a URL, the URL is parsed and the
\* switch dispatches on its type.
StartDownload ==
    /\ pc = "prompt"
    /\ \E u \in PromptUrls, type \in UrlTypes :
         /\ type = parseSpotifyUrl(Text(u)).type
         /\ kind' = type
         /\ \/ /\ type \in {"playlist", "album"}
               /\ \E coll \in Collections :
                    /\ items' = coll
                    /\ fetch' = [i \in 1..Len(coll) |-> "none"]
                    /\ lookup' = [i \in 1..Len(coll) |-> "none"]
                    /\ proc' = [i \in 1..Len(coll) |-> "none"]
                    /\ answer' = [i \in 1..Len(coll) |-> <<>>]
                    /\ handed' = [i \in 1..Len(coll) |-> 0]
               /\ pc' = "get"
               /\ outcome' = "none"
               /\ logged' = <<SearchingFor(type)>>
            \/ /\ type = "track"
               /\ items' = <<"track">>
               /\ fetch' = <<"none">>
               /\ lookup' = <<"none">>
               /\ proc' = <<"none">>
               /\ answer' = << <<>> >>
               /\ handed' = <<0>>
               /\ pc' = "trackget"
               /\ outcome' = "none"
               /\ logged' = <<SearchingFor(type)>>
            \/ /\ type \in {"artist", "unknown"}
               /\ pc' = "confirm"
               /\ outcome' = "returned"
               /\ logged' = logged \o Reported(type)
               /\ UNCHANGED <<items, fetch, lookup, proc, answer, handed>>
    /\ UNCHANGED <<requests, pending, frames, level, failed, dir>>
    /\ UNCHANGED <<spotifyUrl, info, candidates, sorted, started, token, call, timer>>
    /\ UNCHANGED folderVars

\* playlist.get / album.get settles: on success download requests the page at
\* offset 0; a throw is caught by download.
GetSettle ==
    /\ pc = "get"
    /\ \/ /\ token # Undefined
          /\ pc' = "page"
          /\ requests' = <<0>>
          /\ pending' = 0
          /\ UNCHANGED <<failed, outcome, logged>>
       \/ /\ failed' = "get"
          /\ pc' = DownloadCatch.pc
          /\ outcome' = DownloadCatch.outcome
          /\ logged' = Append(logged, ErrorLog)
          /\ UNCHANGED <<requests, pending>>
    /\ UNCHANGED <<kind, items, frames, level, fetch, lookup, proc, answer, handed, dir>>
    /\ UNCHANGED <<spotifyUrl, info, candidates, sorted, started, token, call, timer>>
    /\ UNCHANGED folderVars

\* Mutant of PageArrived: the factories of a page are invoked as soon as the
\* page arrives, before the next page is requested.
PageArrivedEager(result) ==
    LET fr == Append(frames, result)
    IN  IF NoMorePages(result)
        THEN LET j == Join(fr, Len(fr), StartAll(fetch, result.tracks))
             IN  /\ frames' = fr
                 /\ pending' = NoNext
                 /\ level' = j.level
                 /\ fetch' = j.fetch
                 /\ pc' = IF j.level = 0 THEN "confirm" ELSE "join"
                 /\ outcome' = IF j.level = 0 THEN "returned" ELSE outcome
                 /\ UNCHANGED <<requests, failed>>
        ELSE /\ frames' = fr
             /\ requests' = Append(requests, result.next)
             /\ pending' = result.next
             /\ fetch' = StartAll(fetch, result.tracks)
             /\ UNCHANGED <<pc, level, failed, outcome>>

\* downloadMassive(result) up to its next await: addPromises pushes a factory
\* per track of the page (the frame's tracks); if the page has a next, the
\* next page is requested; if not, addPromises returns and Promise.all
\* invokes the factories of this frame.
PageArrived(result) ==
    LET fr == Append(frames, result)
    IN  IF NoMorePages(result)
        THEN LET j == Join(fr, Len(fr), StartAll(fetch, result.tracks))
             IN  /\ frames' = fr
                 /\ pending' = NoNext
                 /\ level' = j.level
                 /\ fetch' = j.fetch
                 /\ pc' = IF j.level = 0 THEN "confirm" ELSE "join"
                 /\ outcome' = IF j.level = 0 THEN "returned" ELSE outcome
                 /\ UNCHANGED <<requests, failed>>
        ELSE /\ frames' = fr
             /\ requests' = Append(requests, result.next)
             /\ pending' = result.next
             /\ UNCHANGED <<pc, level, fetch, failed, outcome>>

\* playlist.tracks / album.tracks settles, for the first page in download and
\* for a later page in addPromises. A throw rejects every downloadMassive on
\* the way up and is caught by download.
PageSettle ==
    /\ pc = "page"
    /\ \/ /\ token # Undefined
          /\ IF frames = <<>>
             THEN logged' = Append(logged, Found(kind)) /\ dir' = DirOf(kind)
             ELSE UNCHANGED <<logged, dir>>
          /\ PageArrived(TracksOf(kind, pending))
       \/ /\ failed' = "page"
          /\ pending' = NoNext
          /\ pc' = DownloadCatch.pc
          /\ outcome' = DownloadCatch.outcome
          /\ logged' = Append(logged, ErrorLog)
          /\ UNCHANGED dir
          /\ UNCHANGED <<requests, frames, level, fetch>>
    /\ UNCHANGED <<kind, items, lookup, proc, answer, handed>>
    /\ UNCHANGED <<spotifyUrl, info, candidates, sorted, started, token, call, timer>>
    /\ UNCHANGED folderVars

\* track.get settles: on success searchInYoutubeAndDownload(track, dir) is
\* called and awaited; a throw is caught by download.
TrackGetSettle ==
    /\ pc = "trackget"
    /\ \/ /\ token # Undefined
          /\ fetch' = StartAll(fetch, <<1>>)
          /\ pc' = "single"
          /\ logged' = Append(logged, Found(kind))
          /\ dir' = DirOf(kind)
          /\ UNCHANGED <<failed, outcome>>
       \/ /\ failed' = "trackget"
          /\ pc' = DownloadCatch.pc
          /\ outcome' = DownloadCatch.outcome
          /\ logged' = Append(logged, ErrorLog)
          /\ UNCHANGED <<fetch, dir>>
    /\ UNCHANGED <<kind, items, requests, pending, frames, level, lookup, proc, answer,
                   handed>>
    /\ UNCHANGED <<spotifyUrl, info, candidates, sorted, started, token, call, timer>>
    /\ UNCHANGED folderVars

\* ------------------------------------------------ searchInYoutubeAndDownload
\* The answers explored: every list of videos for a track URL, the empty list
\* and one single-video list for the tracks of a collection.
SearchAnswers ==
    IF kind = "track" THEN VideoLists(MaxVideos)
    ELSE {<<>>, <<[url |-> 1, views |-> 100, seconds |-> 180, ago |-> <<>>]>>}

\* const video = result.videos[0]
SelectVideo(videos) == videos[1]

\* youtube.search settles for track t. A throw is caught: error. No video:
\* nosong. Otherwise downloadMp3(video.url, dir) spawns yt-dlp and is awaited.
SearchSettle(t) ==
    /\ fetch[t] = "searching"
    /\ \/ /\ LET a == AfterSettle([fetch EXCEPT ![t] = "error"])
             IN  /\ fetch' = a.fetch
                 /\ level' = a.level
                 /\ pc' = a.pc
                 /\ outcome' = a.outcome
          /\ lookup' = [lookup EXCEPT ![t] = "threw"]
          /\ UNCHANGED <<proc, answer, handed>>
       \/ \E videos \in SearchAnswers :
            /\ lookup' = [lookup EXCEPT ![t] = "answered"]
            /\ answer' = [answer EXCEPT ![t] = videos]
            /\ IF videos = <<>>
               THEN /\ LET a == AfterSettle([fetch EXCEPT ![t] = "nosong"])
                       IN  /\ fetch' = a.fetch
                           /\ level' = a.level
                           /\ pc' = a.pc
                           /\ outcome' = a.outcome
                    /\ UNCHANGED <<proc, handed>>
               ELSE /\ fetch' = [fetch EXCEPT ![t] = "downloading"]
                    /\ proc' = [proc EXCEPT ![t] = "running"]
                    /\ handed' = [handed EXCEPT ![t] = SelectVideo(videos).url]
                    /\ UNCHANGED <<level, pc, outcome>>
    /\ UNCHANGED <<kind, items, requests, pending, frames, failed>>
    /\ UNCHANGED <<spotifyUrl, info, candidates, sorted, started, token, call, timer, logged, dir>>
    /\ UNCHANGED folderVars

\* -------------------------------------------------------------- downloadMp3
\* command.stderr.on('data'): reject(data.toString()). Rejecting a promise
\* that has settled changes nothing; rejecting the pending one throws in
\* searchInYoutubeAndDownload, whose catch logs the error.
StderrData(t) ==
    /\ proc[t] = "running"
    /\ LET a == AfterSettle(IF fetch[t] = "downloading"
                            THEN [fetch EXCEPT ![t] = "error"] ELSE fetch)
       IN  /\ fetch' = a.fetch
           /\ level' = a.level
           /\ pc' = a.pc
           /\ outcome' = a.outcome
    /\ UNCHANGED <<kind, items, requests, pending, frames, lookup, proc, answer, handed,
                   failed>>
    /\ UNCHANGED <<spotifyUrl, info, candidates, sorted, started, token, call, timer, logged, dir>>
    /\ UNCHANGED folderVars

\* ------------------------------------------------------- downloadMassive
\* What searchInYoutubeAndDownload resolves with: it returns no value.
FetchResult(state) == "undefined"

\* What the outermost downloadMassive resolves with: Promise.all over the
\* calls of its own frame, the first page.
MassiveResult ==
    IF frames = <<>> THEN <<>>
    ELSE [k \in 1..Len(frames[1].tracks) |-> FetchResult(fetch[frames[1].tracks[k]])]

\* Mutant of OnClose: a close with code 0 reports the song as downloaded even
\* when the call has been rejected before.
OnCloseOverride(code, state) ==
    IF code = 0 THEN "downloaded" ELSE state

\* Mutant of OnClose: a download whose process closed with another code is
\* tried again from the search.
OnCloseRetry(code, state) ==
    IF state # "downloading" THEN state
    ELSE IF code = 0 THEN "downloaded" ELSE "searching"

\* .on('close', (code) => { if (code === 0) resolve(true) }): the promise of
\* downloadMp3 after the process closed with this code.
OnClose(code, state) ==
    IF code = 0 /\ state = "downloading" THEN "downloaded" ELSE state

\* The yt-dlp process of track t closes with an exit code.
ProcClose(t) ==
    /\ proc[t] = "running"
    /\ \E code \in {0, 1} :
         /\ proc' = [proc EXCEPT ![t] = IF code = 0 THEN "exit0" ELSE "exit1"]
         /\ LET a == AfterSettle([fetch EXCEPT ![t] = OnClose(code, fetch[t])])
            IN  /\ fetch' = a.fetch
                /\ level' = a.level
                /\ pc' = a.pc
                /\ outcome' = a.outcome
    /\ UNCHANGED <<kind, items, requests, pending, frames, lookup, answer, handed,
                   failed>>
    /\ UNCHANGED <<spotifyUrl, info, candidates, sorted, started, token, call, timer, logged, dir>>
    /\ UNCHANGED folderVars

\* ------------------------------------------------------------ startPrompts
\* Mutant of Confirm: declining does not end the process; the confirm is
\* asked again and a new cycle may follow.
ConfirmNoExit ==
    /\ pc \in {"confirm", "exited"}
    /\ \/ /\ pc' = "exited"
          /\ UNCHANGED <<kind, items, requests, pending, frames, level, fetch,
                         lookup, proc, answer, handed, failed, outcome, logged,
                         dir>>
       \/ /\ pc' = "prompt"
          /\ kind' = "none"
          /\ items' = <<>>
          /\ requests' = <<>>
          /\ pending' = NoNext
          /\ frames' = <<>>
          /\ level' = 0
          /\ fetch' = <<>>
          /\ lookup' = <<>>
          /\ proc' = <<>>
          /\ answer' = <<>>
          /\ handed' = <<>>
          /\ failed' = "none"
          /\ outcome' = "none"
          /\ logged' = <<>>
          /\ dir' = "none"
    /\ UNCHANGED <<spotifyUrl, info, candidates, sorted, started, token, call, timer>>
    /\ UNCHANGED folderVars

\* The confirm of startPrompts settles: process.exit(1) when the operator
\* declines, otherwise startPrompts() again, which clears the console.
Confirm ==
    /\ pc = "confirm"
    /\ \/ /\ pc' = "exited"
          /\ UNCHANGED <<kind, items, requests, pending, frames, level, fetch,
                         lookup, proc, answer, handed, failed, outcome, logged,
                         dir>>
       \/ /\ pc' = "prompt"
          /\ kind' = "none"
          /\ items' = <<>>
          /\ requests' = <<>>
          /\ pending' = NoNext
          /\ frames' = <<>>
          /\ level' = 0
          /\ fetch' = <<>>
          /\ lookup' = <<>>
          /\ proc' = <<>>
          /\ answer' = <<>>
          /\ handed' = <<>>
          /\ failed' = "none"
          /\ outcome' = "none"
          /\ logged' = <<>>
          /\ dir' = "none"
    /\ UNCHANGED <<spotifyUrl, info, candidates, sorted, started, token, call, timer>>
    /\ UNCHANGED folderVars

Next ==
    \/ StartSettle
    \/ StartDownload
    \/ GetSettle
    \/ PageSettle
    \/ TrackGetSettle
    \/ \E t \in DOMAIN fetch : SearchSettle(t)
    \/ \E t \in DOMAIN proc : StderrData(t)
    \/ \E t \in DOMAIN proc : ProcClose(t)
    \/ Confirm

Spec == Init /\ [][Next]_vars

\* ------------------------------------------- parseSpotifyUrl on its own
\* A caller gives any of the strings to parseSpotifyUrl.
InitUrl ==
    /\ pc = "parse"
    /\ NoDownload
    /\ spotifyUrl \in UrlShapes
    /\ info = NotParsed
    /\ NoRanking
    /\ NewClient
    /\ NoFolder

ParseUrl ==
    /\ pc = "parse"
    /\ info' = parseSpotifyUrl(Text(spotifyUrl))
    /\ pc' = "parsed"
    /\ UNCHANGED <<kind, items, requests, pending, frames, level, fetch, lookup,
                   proc, answer, handed, failed, outcome, spotifyUrl,
                   candidates, sorted, started, token, call, timer, logged, dir>>
    /\ UNCHANGED folderVars

NextUrl == ParseUrl

SpecUrl == InitUrl /\ [][NextUrl]_vars

\* ------------------------------------------------- sortVideos on its own
\* A caller gives any of the lists to sortVideos.
InitRank ==
    /\ pc = "rank"
    /\ NoDownload
    /\ NoUrl
    /\ \E n \in 1..MaxRanked :
         \E f \in [1..n -> RankedFeatures] : candidates = RankedList(f)
    /\ sorted = <<>>
    /\ NewClient
    /\ NoFolder

Rank ==
    /\ pc = "rank"
    /\ sorted' = sortVideos(candidates)
    /\ pc' = "ranked"
    /\ UNCHANGED <<kind, items, requests, pending, frames, level, fetch, lookup,
                   proc, answer, handed, failed, outcome, spotifyUrl, info,
                   candidates, started, token, call, timer, logged, dir>>
    /\ UNCHANGED folderVars

NextRank == Rank

SpecRank == InitRank /\ [][NextRank]_vars

\* ------------------------------------------- sortVideos on ages alone
\* A caller gives sortVideos two videos that differ in the unit of their ago.
InitAge ==
    /\ pc = "rank"
    /\ NoDownload
    /\ NoUrl
    /\ \E n \in 1..MaxCount : \E u, v \in AgoWords : candidates = AgedPair(n, u, v)
    /\ sorted = <<>>
    /\ NewClient
    /\ NoFolder

SpecAge == InitAge /\ [][NextRank]_vars

\* ---------------------------------------------- the client on its own
\* A caller of the client: it may call start and any method of the catalog,
\* in any order.
InitClient ==
    /\ pc = "client"
    /\ NoDownload
    /\ NoUrl
    /\ NoRanking
    /\ NewClient
    /\ NoFolder

\* start() is called and settles.
ClientStart ==
    /\ pc = "client"
    /\ ~started
    /\ \E reply \in TokenReplies :
         LET r == start(reply)
         IN  /\ started' = r.started
             /\ token' = r.token
             /\ timer' = r.timer
    /\ UNCHANGED <<pc, kind, items, requests, pending, frames, level, fetch, lookup,
                   proc, answer, handed, failed, outcome, spotifyUrl, info,
                   candidates, sorted, call, logged, dir>>
    /\ UNCHANGED folderVars

\* The call awaits the reply to the request it has sent.
Awaited == call.sent /\ call.reply = NoReply

\* A method of the catalog is called: it throws at once, or builds its
\* request, sends it and awaits the reply.
ClientSend ==
    /\ pc = "client"
    /\ ~Awaited
    /\ \E method \in Methods : call' = Request(method, NoReply)
    /\ UNCHANGED <<pc, kind, items, requests, pending, frames, level, fetch, lookup,
                   proc, answer, handed, failed, outcome, spotifyUrl, info,
                   candidates, sorted, started, token, timer, logged, dir>>
    /\ UNCHANGED folderVars

\* The reply to the request arrives and the method settles; the request
\* that was answered is the one that was sent.
ClientSettle ==
    /\ pc = "client"
    /\ Awaited
    /\ \E reply \in Replies :
         call' = [Request(call.method, reply) EXCEPT !.bearer = call.bearer]
    /\ UNCHANGED <<pc, kind, items, requests, pending, frames, level, fetch, lookup,
                   proc, answer, handed, failed, outcome, spotifyUrl, info,
                   candidates, sorted, started, token, timer, logged, dir>>
    /\ UNCHANGED folderVars

\* The timer set by refreshToken is due: () => this.refreshToken() runs up to
\* its await of the token endpoint.
TimerDue ==
    /\ pc = "client"
    /\ timer = "scheduled"
    /\ token < MaxTokens
    /\ timer' = "inflight"
    /\ UNCHANGED <<pc, kind, items, requests, pending, frames, level, fetch, lookup,
                   proc, answer, handed, failed, outcome, spotifyUrl, info,
                   candidates, sorted, started, token, call, logged, dir>>
    /\ UNCHANGED folderVars

\* What becomes of the process when the promise of a refreshToken called by
\* the timer rejects: nothing handles the rejection. Depending on the Node
\* release and its --unhandled-rejections mode the process ends or goes on
\* with a warning.
UnhandledRejection == {"crashed", "client"}

\* The token endpoint answers the refreshToken called by the timer.
RefreshSettle ==
    /\ pc = "client"
    /\ timer = "inflight"
    /\ \E reply \in TokenReplies :
         LET r == refreshToken(reply)
         IN  /\ token' = r.token
             /\ timer' = r.timer
             /\ IF r.threw THEN pc' \in UnhandledRejection ELSE pc' = pc
    /\ UNCHANGED <<kind, items, requests, pending, frames, level, fetch, lookup,
                   proc, answer, handed, failed, outcome, spotifyUrl, info,
                   candidates, sorted, started, call, logged, dir>>
    /\ UNCHANGED folderVars

NextClient ==
    \/ ClientStart
    \/ ClientSend
    \/ ClientSettle
    \/ TimerDue
    \/ RefreshSettle

SpecClient == InitClient /\ [][NextClient]_vars

\* -------------------------------------------------------- the folder prompt
\* A path is the sequence of the names on it, a name the sequence of its
\* characters; the string of a path is what the code compares.
RECURSIVE Segments(_)
Segments(p) == IF p = <<>> THEN <<>> ELSE <<"/">> \o p[1] \o Segments(Tail(p))
PathString(p) == IF p = <<>> THEN <<"/">> ELSE Segments(p)

\* String.prototype.startsWith on the strings of two paths.
startsWith(p, q) ==
    LET s == PathString(p)
        t == PathString(q)
    IN  Len(t) <= Len(s) /\ SubSeq(s, 1, Len(t)) = t

\* path.dirname: the path without its last name; the root is its own parent.
dirname(p) == IF p = <<>> THEN <<>> ELSE SubSeq(p, 1, Len(p) - 1)

\* path.resolve of an absolute path: '..' steps back to the parent, '.' and
\* what is left of a run of slashes are dropped.
DotDot == <<".", ".">>
Dot == <<".">>
RECURSIVE resolveFrom(_, _)
resolveFrom(done, rest) ==
    IF rest = <<>> THEN done
    ELSE IF rest[1] = DotDot THEN resolveFrom(dirname(done), Tail(rest))
    ELSE IF rest[1] = Dot \/ rest[1] = <<>> THEN resolveFrom(done, Tail(rest))
    ELSE resolveFrom(Append(done, rest[1]), Tail(rest))
resolve(p) == resolveFrom(<<>>, p)

\* The names of the file system the prompt is explored on.
HomeName == <<"h", "o", "m", "e">>
UserName == <<"u", "s", "e", "r">>
User2Name == <<"u", "s", "e", "r", "2">>
SrvName == <<"s", "r", "v">>
MusicName == <<"M", "u", "s", "i", "c">>
VideosName == <<"V", "i", "d", "e", "o", "s">>
RockName == <<"R", "o", "c", "k">>
JazzName == <<"J", "a", "z", "z">>
DataName == <<"D", "a", "t", "a">>

\* os.homedir()
userHomeDir == <<HomeName, UserName>>

\* The folders of each directory, in the order glob lists them: the home
\* directory with two folders, one of which has folders of its own; beside
\* the home directory a directory whose name begins with the home's; and a
\* directory elsewhere. A folder not named here lists none.
Listing(d) ==
    CASE d = <<>> -> <<HomeName, SrvName>>
      [] d = <<HomeName>> -> <<UserName, User2Name>>
      [] d = userHomeDir -> <<MusicName, VideosName>>
      [] d = userHomeDir \o <<MusicName>> -> <<RockName, JazzName>>
      [] d = <<HomeName, User2Name>> -> <<DataName>>
      [] OTHER -> <<>>

\* The folders whose write permission is explored.
Protectable ==
    {userHomeDir \o <<MusicName>>, userHomeDir \o <<VideosName>>,
     userHomeDir \o <<MusicName, RockName>>, <<HomeName, User2Name, DataName>>}

\* config.basePath: absent (<<>>), or an absolute path.
BasePaths ==
    {<<>>,
     userHomeDir \o <<MusicName>>,
     userHomeDir \o <<MusicName, DotDot, VideosName>>,
     <<SrvName>>,
     <<HomeName, User2Name>>,
     userHomeDir \o <<DotDot, User2Name>>}

\* getFolderChoices(currentDir): one choice per folder of the directory.
getFolderChoices(d) ==
    [k \in 1..Len(Listing(d)) |->
        [value |-> Append(d, Listing(d)[k]),
         isRestricted |-> Append(d, Listing(d)[k]) \in readOnly]]

\* The first render of folderPrompt.
initialDir(basePath) == IF basePath # <<>> THEN resolve(basePath) ELSE userHomeDir
InitFolder ==
    /\ pc = "folder"
    /\ NoDownload
    /\ NoUrl
    /\ NoRanking
    /\ NewClient
    /\ \E basePath \in BasePaths :
         currentDir = IF startsWith(initialDir(basePath), userHomeDir)
                      THEN initialDir(basePath) ELSE userHomeDir
    /\ cursor = 0
    /\ selected = <<>>
    /\ readOnly \in SUBSET Protectable

Keys == {"up", "down", "space", "backspace", "return"}

\* The choice under the cursor, choices[cursor]; cursor counts from 0.
HasChoice(choices) == cursor >= 0 /\ cursor < Len(choices)

\* Mutant of Keypress: the handler without its `if (selected) return`.
KeypressAfterDone(key) ==
    LET choices == getFolderChoices(currentDir)
    IN  /\ pc = "folder"
        /\ CASE key = "up" ->
                  /\ cursor' = IF cursor > 0 THEN cursor - 1 ELSE Len(choices) - 1
                  /\ UNCHANGED <<currentDir, selected>>
             [] key = "down" ->
                  /\ cursor' = IF cursor < Len(choices) - 1 THEN cursor + 1 ELSE 0
                  /\ UNCHANGED <<currentDir, selected>>
             [] key = "space" ->
                  IF HasChoice(choices)
                  THEN LET newDir == choices[cursor + 1].value
                       IN  IF ~choices[cursor + 1].isRestricted
                              /\ startsWith(newDir, userHomeDir)
                           THEN /\ currentDir' = newDir
                                /\ cursor' = 0
                                /\ UNCHANGED selected
                           ELSE UNCHANGED <<currentDir, cursor, selected>>
                  ELSE /\ cursor' = 0
                       /\ UNCHANGED <<currentDir, selected>>
             [] key = "backspace" ->
                  LET parentDir == dirname(currentDir)
                  IN  IF startsWith(parentDir, userHomeDir) /\ parentDir # currentDir
                      THEN /\ currentDir' = parentDir
                           /\ cursor' = 0
                           /\ UNCHANGED selected
                      ELSE UNCHANGED <<currentDir, cursor, selected>>
             [] key = "return" ->
                  IF HasChoice(choices) /\ ~choices[cursor + 1].isRestricted
                  THEN /\ selected' = choices[cursor + 1].value
                       /\ UNCHANGED <<currentDir, cursor>>
                  ELSE UNCHANGED <<currentDir, cursor, selected>>
        /\ UNCHANGED <<pc, kind, items, requests, pending, frames, level, fetch,
                       lookup, proc, answer, handed, failed, outcome, spotifyUrl,
                       info, candidates, sorted, started, token, call, timer,
                       logged, dir, readOnly>>

\* The handler given to useKeypress, for one key: it sees the state of the
\* last render, and the prompt renders again after it; done(selectedPath)
\* resolves selectFolder with the path.
Keypress(key) ==
    LET choices == getFolderChoices(currentDir)
    IN  /\ pc = "folder"
        /\ IF selected # <<>>
           THEN UNCHANGED <<currentDir, cursor, selected>>
           ELSE CASE key = "up" ->
                  /\ cursor' = IF cursor > 0 THEN cursor - 1 ELSE Len(choices) - 1
                  /\ UNCHANGED <<currentDir, selected>>
             [] key = "down" ->
                  /\ cursor' = IF cursor < Len(choices) - 1 THEN cursor + 1 ELSE 0
                  /\ UNCHANGED <<currentDir, selected>>
             [] key = "space" ->
                  IF HasChoice(choices)
                  THEN LET newDir == choices[cursor + 1].value
                       IN  IF ~choices[cursor + 1].isRestricted
                              /\ startsWith(newDir, userHomeDir)
                           THEN /\ currentDir' = newDir
                                /\ cursor' = 0
                                /\ UNCHANGED selected
                           ELSE UNCHANGED <<currentDir, cursor, selected>>
                  ELSE /\ cursor' = 0
                       /\ UNCHANGED <<currentDir, selected>>
             [] key = "backspace" ->
                  LET parentDir == dirname(currentDir)
                  IN  IF startsWith(parentDir, userHomeDir) /\ parentDir # currentDir
                      THEN /\ currentDir' = parentDir
                           /\ cursor' = 0
                           /\ UNCHANGED selected
                      ELSE UNCHANGED <<currentDir, cursor, selected>>
             [] key = "return" ->
                  IF HasChoice(choices) /\ ~choices[cursor + 1].isRestricted
                  THEN /\ selected' = choices[cursor + 1].value
                       /\ UNCHANGED <<currentDir, cursor>>
                  ELSE UNCHANGED <<currentDir, cursor, selected>>
        /\ UNCHANGED <<pc, kind, items, requests, pending, frames, level, fetch,
                       lookup, proc, answer, handed, failed, outcome, spotifyUrl,
                       info, candidates, sorted, started, token, call, timer,
                       logged, dir, readOnly>>

NextFolder == \E key \in Keys : Keypress(key)

SpecFolder == InitFolder /\ [][NextFolder]_vars

\* ------------------------------------------------------------- observations
IsCollection == kind \in {"playlist", "album"}
TrackItems == {i \in DOMAIN items : items[i] = "track"}

\* promiseFactories over all frames: how many factories were pushed for item i.
ScheduledCount(i) ==
    Sum([k \in 1..Len(frames) |->
            Cardinality({j \in DOMAIN frames[k].tracks : frames[k].tracks[j] = i})])

\* The traversal of the pages ended with a page that has no next.
TraversalDone ==
    /\ IsCollection
    /\ frames # <<>>
    /\ NoMorePages(frames[Len(frames)])

\* Nothing the download waits for can still happen: no catalog call, no
\* search and no yt-dlp process is pending.
NothingPending ==
    /\ pc \notin {"get", "page", "trackget"}
    /\ \A i \in DOMAIN fetch : fetch[i] # "searching" /\ proc[i] # "running"

\* ------------------------------------------------------------------ claims

\* C1: a track whose search throws, finds no video, or whose MP3 download
\* fails never keeps another scheduled track of the collection from being
\* attempted: once every page has arrived and nothing is pending any more,
\* every scheduled track has been attempted.
C1_SiblingsAlwaysAttempted ==
    (TraversalDone /\ NothingPending) =>
        \A i \in DOMAIN items : ScheduledCount(i) > 0 => fetch[i] # "none"

\* C2: when the download of a collection has returned, no fetch of that
\* collection is still in flight, on any page.
C2_ReturnsAfterAllSettled ==
    (IsCollection /\ outcome = "returned") =>
        \A i \in DOMAIN fetch : ~InFlight(fetch[i])

\* C2 witness: a two-page download returned with a fetched track on each of
\* two pages.
C2_Witness ==
    /\ IsCollection /\ outcome = "returned" /\ Len(frames) >= 2
    /\ \E a \in Range(frames[1].tracks), b \in Range(frames[2].tracks) :
         Settled(fetch[a]) /\ Settled(fetch[b])

\* C3: no item is scheduled twice, an item that is not of type 'track' is
\* never scheduled, and once the traversal has reached the last page every
\* item of type 'track' of every page is scheduled exactly once.
C3_TracksScheduledOnce ==
    IsCollection =>
        /\ \A i \in DOMAIN items : ScheduledCount(i) <= 1
        /\ \A i \in DOMAIN items : items[i] # "track" => ScheduledCount(i) = 0
        /\ TraversalDone => \A i \in TrackItems : ScheduledCount(i) = 1

\* C3 witness: the traversal is over three pages, with a track and an
\* item of another type beyond the first page.
C3_Witness ==
    /\ TraversalDone /\ Len(frames) = 3
    /\ \E i, j \in DOMAIN items :
         /\ i > PageSize /\ j > PageSize
         /\ items[i] = "track" /\ items[j] = "episode"
         /\ ScheduledCount(i) = 1

\* C4: every page has a next offset if and only if offset + 10 < total, and
\* a next offset is strictly greater than the offset.
C4_NextIffMoreItems ==
    \A k \in DOMAIN frames :
        /\ (frames[k].next # NoNext) <=> (frames[k].offset + PageSize < frames[k].total)
        /\ frames[k].next # NoNext => frames[k].next > frames[k].offset

\* C5: the page requests of a download start at offset 0, follow next at
\* strictly increasing offsets, are at most total / 10 + 1 many, and stop
\* when a page has no next.
C5_TraversalFinite ==
    IsCollection =>
        /\ requests # <<>> => requests[1] = 0
        /\ \A k \in 2..Len(requests) :
             requests[k] > requests[k - 1] /\ requests[k] = frames[k - 1].next
        /\ Len(requests) <= (Len(items) \div PageSize) + 1
        /\ (frames # <<>> /\ frames[Len(frames)].next = NoNext) =>
             pc # "page" /\ pending = NoNext /\ Len(requests) = Len(frames)

\* C5 witness: the pages at offsets 0, 10 and 20 were requested and the
\* traversal stopped.
C5_Witness ==
    /\ TraversalDone
    /\ requests = <<0, 10, 20>>
    /\ pc # "page"

\* C6: the url handed to downloadMp3 is the url of the first element of the
\* candidates as ordered by sortVideos.
C6_TopRankedIsHanded ==
    \A t \in DOMAIN handed :
        handed[t] # 0 => handed[t] = sortVideos(answer[t])[1].url

\* C7: a track is reported as downloaded if and only if its yt-dlp process
\* exited with code 0, and a process that exited with another code has its
\* track reported as an error.
C7_DownloadedIffExitZero ==
    \A t \in DOMAIN fetch :
        /\ fetch[t] = "downloaded" <=> proc[t] = "exit0"
        /\ proc[t] = "exit1" => fetch[t] = "error"

\* C8: once the yt-dlp process of a track has closed, its downloadMp3 call
\* has settled, whatever the exit code and the stderr output.
C8_SettledOnceClosed ==
    \A t \in DOMAIN fetch :
        proc[t] \in {"exit0", "exit1"} => fetch[t] # "downloading"

C10_LookupFailureAborts ==
    (IsCollection /\ failed # "none") =>
        /\ outcome = "returned"
        /\ pc \in {"confirm", "exited"}
        /\ \A i \in DOMAIN fetch : fetch[i] = "none" /\ proc[i] = "none"
        /\ (failed = "get" \/ Len(requests) = 1) =>
             \A i \in DOMAIN items : ScheduledCount(i) = 0

\* C10 witness: the get of a playlist failed and the operator is asked
\* whether to download again.
C10_Witness ==
    /\ kind = "playlist" /\ failed = "get" /\ pc = "confirm"

\* ------------------------------------------------- observations on strings
\* A 22-character alphanumeric id.
IsId(id) == Len(id) = IdLength /\ \A j \in 1..Len(id) : id[j] \in IdChars

\* No locale, or intl- followed by lowercase letters and a slash.
IsLocale(locale) ==
    \/ locale = <<>>
    \/ /\ HasAt(locale, 1, IntlDash)
       /\ Len(locale) > Len(IntlDash) + 1
       /\ RunEnd(locale, Len(IntlDash) + 1, Lower) = Len(locale)
       /\ locale[Len(locale)] = "/"

\* No query, or a query string: ? followed by characters of one line.
IsQuery(tail) ==
    \/ tail = <<>>
    \/ /\ tail[1] = "?"
       /\ \A j \in 2..Len(tail) : tail[j] \notin LineTerminators

\* A web-style URL https://<host>/<locale>/<kind>/<id><query> of a valid kind.
IsWebUrl(shape) ==
    /\ shape.form = "web"
    /\ shape.lead = <<>>
    /\ shape.scheme = Https
    /\ IsLocale(shape.locale)
    /\ shape.kind \in validTypes
    /\ IsId(shape.id)
    /\ IsQuery(shape.tail)

\* A URI spotify:<kind>:<id> of a valid kind.
IsUri(shape) ==
    /\ shape.form = "uri"
    /\ shape.lead = <<>>
    /\ shape.kind \in validTypes
    /\ IsId(shape.id)
    /\ shape.tail = <<>>

\* The SpotifyUrlInfo that names the kind and the id of the shape.
Resolved(shape) ==
    [type |-> TypeName(shape.kind), id |-> shape.id, originalUrl |-> Text(shape)]

\* The groups of the expression that matched the string, <<>> when neither did.
Matched(u) == IF WebMatch(u) # <<>> THEN WebMatch(u) ELSE UriMatch(u)

C12_UnknownHasEmptyId ==
    (/\ pc = "parsed"
     /\ \/ Matched(Text(spotifyUrl)) = <<>>
        \/ Matched(Text(spotifyUrl))[1] \notin validTypes)
        => info = [type |-> "unknown", id |-> <<>>, originalUrl |-> Text(spotifyUrl)]

\* ------------------------------------------------- observations on ranking
Sign(x) == IF x < 0 THEN 0 - 1 ELSE IF x > 0 THEN 1 ELSE 0

\* x is ranked before y by the comparator, whichever of the two is its first
\* argument.
RanksFirst(x, y) == compare(x, y) < 0 /\ compare(y, x) > 0

Known(v) == v.ago # <<>>
MoreViews(x, y) == IF x.views >= y.views THEN x.views ELSE y.views
FewerViews(x, y) == IF x.views >= y.views THEN y.views ELSE x.views

\* The larger view count is more than 1.3 times the smaller one.
FarApart(x, y) == 10 * MoreViews(x, y) > 13 * FewerViews(x, y)

\* C13: the comparator of sortVideos is a total order: the signs of
\* compare(a, b) and compare(b, a) are opposite, and a before-or-equal b
\* before-or-equal c gives a before-or-equal c.
C13_ComparatorIsTotalOrder ==
    pc = "ranked" =>
        /\ \A i, j \in DOMAIN candidates :
             Sign(compare(candidates[i], candidates[j]))
                = 0 - Sign(compare(candidates[j], candidates[i]))
        /\ \A i, j, k \in DOMAIN candidates :
             (/\ compare(candidates[i], candidates[j]) <= 0
              /\ compare(candidates[j], candidates[k]) <= 0)
                => compare(candidates[i], candidates[k]) <= 0

\* C14: of two videos that both have an age and whose views are more than
\* 1.3 times apart, the one with more views ranks first whichever is the
\* first argument, whatever their durations and ages.
C14_MoreViewsFirst ==
    pc = "ranked" =>
        \A i, j \in DOMAIN candidates :
            (/\ Known(candidates[i]) /\ Known(candidates[j])
             /\ FarApart(candidates[i], candidates[j])
             /\ candidates[i].views > candidates[j].views)
                => RanksFirst(candidates[i], candidates[j])

\* C15: a video without age ranks after every video that has one: so says
\* the comparator for either order of its arguments, and so is the list that
\* sortVideos returns.
C15_AbsentAgeLast ==
    pc = "ranked" =>
        /\ \A i, j \in DOMAIN candidates :
             (Known(candidates[i]) /\ ~Known(candidates[j]))
                => RanksFirst(candidates[i], candidates[j])
        /\ \A p, q \in DOMAIN sorted :
             (p < q /\ Known(sorted[q])) => Known(sorted[p])
        /\ Len(sorted) = Len(candidates)
        /\ \A i \in DOMAIN candidates : \E p \in DOMAIN sorted : sorted[p] = candidates[i]

C15_Witness ==
    /\ pc = "ranked"
    /\ Len(candidates) = 3
    /\ ~Known(candidates[1])
    /\ Known(candidates[2])
    /\ Known(candidates[3])
    /\ sorted[3] = candidates[1]

\* C16: of two videos that both have an age and whose views are at most 1.3
\* times apart, when the ages differ by less than 30 days the shorter one
\* ranks first, and otherwise the one of the smaller age ranks first; a list
\* of the two is returned in that order.
C16_CloseViewsByAge ==
    pc = "ranked" =>
        /\ \A i, j \in DOMAIN candidates :
             LET x == candidates[i]
                 y == candidates[j]
             IN  (Known(x) /\ Known(y) /\ ~FarApart(x, y)) =>
                    IF Abs(getTimeValue(x.ago) - getTimeValue(y.ago)) < 30 * 1440
                    THEN x.seconds < y.seconds => RanksFirst(x, y)
                    ELSE getTimeValue(x.ago) < getTimeValue(y.ago) => RanksFirst(x, y)
        /\ (Len(candidates) = 2 /\ RanksFirst(candidates[2], candidates[1]))
              => sorted = <<candidates[2], candidates[1]>>
        /\ (Len(candidates) = 2 /\ RanksFirst(candidates[1], candidates[2]))
              => sorted = candidates

C16_Witness ==
    /\ pc = "ranked"
    /\ Len(candidates) = 2
    /\ Known(candidates[1]) /\ Known(candidates[2])
    /\ candidates[1].views # candidates[2].views
    /\ ~FarApart(candidates[1], candidates[2])
    /\ getTimeValue(candidates[1].ago) - getTimeValue(candidates[2].ago) >= 30 * 1440
    /\ candidates[1].seconds < candidates[2].seconds
    /\ sorted = <<candidates[2], candidates[1]>>

\* C17: of two videos without age, when the views differ by less than 20 % of
\* the larger view count the shorter one ranks first, and otherwise the one
\* with more views ranks first, whichever is the first argument.
C17_AbsentAgeByViews ==
    pc = "ranked" =>
        \A i, j \in DOMAIN candidates :
            LET x == candidates[i]
                y == candidates[j]
            IN  (~Known(x) /\ ~Known(y)) =>
                    IF 5 * Abs(x.views - y.views) < MoreViews(x, y)
                    THEN x.seconds < y.seconds => RanksFirst(x, y)
                    ELSE x.views > y.views => RanksFirst(x, y)

\* ---------------------------------------------- observations on the client
\* The last call got an error body from the catalog.
GotErrorBody == call.sent /\ call.reply.kind = "error"

\* The message of the error class of an error body: not found for a 404
\* 'Resource not found', invalid id for a 400 'Invalid base62 id', and the
\* generic error with the upstream message for every other one.
ClassOf(error) ==
    CASE error.status = 404 /\ Includes(error.message, ResourceNotFound) ->
           ResourceNotFound
      [] error.status = 400 /\ Includes(error.message, InvalidBase62Id) ->
           InvalidID
      [] OTHER -> ErrorGettingInformation \o error.message

\* C18: the error a caller of a method receives for an error body is the
\* error of its class: the not-found error, the invalid-id error, or
\* the generic error that carries the upstream message.
C18_ReceivesClassError ==
    GotErrorBody => (call.threw /\ call.message = ClassOf(call.reply))

\* C19: when the token endpoint cannot be reached, or answers with a body
\* that holds no access token, start does not reach startPrompts and started
\* stays false: there is no prompt without a valid token.
C19_NoPromptWithoutToken ==
    (started \/ pc \notin {"start", "startfailed"}) => token # Undefined

\* C20: a method of the catalog sends a request only once start has
\* completed; called while started is false it throws 'The Spotify client
\* has not been started' and sends nothing.
C20_NoRequestBeforeStart ==
    /\ call.sent => started
    /\ (~started /\ call.method # "none") =>
          /\ ~call.sent
          /\ call.threw
          /\ call.message = NotStarted
          /\ call.cause = <<>>

C20_Witness ==
    /\ ~started
    /\ call.method = "playlist.tracks"
    /\ ~call.sent
    /\ call.message = NotStarted

\* ------------------------------------------- observations on the fan-out
\* The tracks for which a factory was pushed, on any page retrieved so far.
Scheduled == {i \in DOMAIN items : ScheduledCount(i) > 0}
InFlightTracks == {i \in DOMAIN fetch : InFlight(fetch[i])}
SettledTracks == {i \in DOMAIN fetch : Settled(fetch[i])}

\* The frame (page) whose factories hold track i; 0 when none does.
FrameOf(i) ==
    IF \E k \in 1..Len(frames) : i \in Range(frames[k].tracks)
    THEN CHOOSE k \in 1..Len(frames) : i \in Range(frames[k].tracks)
    ELSE 0

\* C22: the fetches of all tracks of all pages are fanned out at once: once
\* the pages of a collection have all arrived and fetches are in flight of
\* which none has settled yet, every scheduled track of every page is in
\* flight.
C22_AllPagesAtOnce ==
    (TraversalDone /\ InFlightTracks # {} /\ SettledTracks = {}) =>
        \A i \in Scheduled : InFlight(fetch[i])

\* C27: no fetch of a track starts before the last page of the collection
\* has been retrieved; when the request for a page fails, no track of the
\* collection is fetched at all, the tracks of the pages retrieved before it
\* included.
C27_NoFetchBeforeLastPage ==
    IsCollection =>
        /\ (\E i \in DOMAIN fetch : fetch[i] # "none") =>
              /\ TraversalDone
              /\ Len(frames) = Len(requests)
              /\ pending = NoNext
              /\ failed = "none"
        /\ failed = "page" =>
              \A i \in DOMAIN fetch :
                  fetch[i] = "none" /\ lookup[i] = "none" /\ proc[i] = "none"

\* C27 witness: the request for the second page failed after the first page,
\* which holds a track, had been retrieved; the download returned.
C27_Witness ==
    /\ IsCollection /\ failed = "page"
    /\ Len(frames) = 1 /\ requests = <<0, 10>>
    /\ frames[1].tracks # <<>>
    /\ \A i \in DOMAIN fetch : fetch[i] = "none"
    /\ outcome = "returned"

\* C28: the fetches of the tracks of page k start only after every fetch of
\* every later page has settled: the fetches in flight are all of the page
\* whose Promise.all is awaited, the tracks of the pages after it have all
\* settled, those of the pages before it have not been invoked, and no more
\* than one page of fetches, 10 at most, is in flight.
C28_OnePageAtATime ==
    IsCollection =>
        /\ \A i \in DOMAIN fetch :
             /\ InFlight(fetch[i]) => (level > 0 /\ FrameOf(i) = level)
             /\ (fetch[i] # "none" /\ level > 0) => FrameOf(i) >= level
             /\ (level > 0 /\ FrameOf(i) > level) => Settled(fetch[i])
        /\ \A k \in 1..Len(frames) : Len(frames[k].tracks) <= PageSize
        /\ Cardinality(InFlightTracks) <= PageSize

\* C28 witness: the track of the second page has settled and the one of the
\* first page is in flight.
C28_Witness ==
    /\ IsCollection /\ Len(frames) = 2 /\ level = 1
    /\ \E i, j \in Scheduled :
         /\ FrameOf(i) = 1 /\ InFlight(fetch[i])
         /\ FrameOf(j) = 2 /\ Settled(fetch[j])

\* C23: a call of searchInYoutubeAndDownload searches once and calls
\* downloadMp3 at most once, with no retry: a call that has left its search
\* never searches again, a yt-dlp process that has closed is never spawned
\* again, downloadMp3 is called only out of a search that resolved with at
\* least one video, and never after a search that threw or found none.
C23_SingleAttempt ==
    /\ [](\A t \in DOMAIN fetch :
            /\ (handed[t] # 0 \/ proc[t] # "none") =>
                  (lookup[t] = "answered" /\ answer[t] # <<>>)
            /\ (lookup[t] = "threw" \/ (lookup[t] = "answered" /\ answer[t] = <<>>)) =>
                  (handed[t] = 0 /\ proc[t] = "none"))
    /\ [][\A t \in DOMAIN fetch \cap DOMAIN fetch' :
            /\ fetch'[t] = "searching" => fetch[t] \in {"none", "searching"}
            /\ lookup[t] # "none" => lookup'[t] = lookup[t]
            /\ proc'[t] = "running" =>
                  \/ proc[t] = "running"
                  \/ proc[t] = "none" /\ fetch[t] = "searching"
            /\ handed[t] # 0 => handed'[t] = handed[t]]_vars

\* C23 witness: of three tracks one had its search throw, one found no video
\* and one had its single yt-dlp process close.
C23_Witness ==
    \E a, b, c \in DOMAIN fetch :
        /\ lookup[a] = "threw" /\ proc[a] = "none" /\ Settled(fetch[a])
        /\ lookup[b] = "answered" /\ answer[b] = <<>> /\ proc[b] = "none"
        /\ lookup[c] = "answered" /\ handed[c] # 0 /\ proc[c] = "exit1"

\* C24: a track whose fetch settles has exactly one outcome reported
\* (downloaded, no song found or error): the outcome is logged in the step
\* of the track's own search or yt-dlp process that settles its fetch, no
\* step reports for two tracks, and an outcome once reported is never
\* followed by another for the same track.
C24_OneOutcomePerTrack ==
    [][\A t \in DOMAIN fetch \cap DOMAIN fetch' :
          /\ Settled(fetch[t]) => fetch'[t] = fetch[t]
          /\ (~Settled(fetch[t]) /\ Settled(fetch'[t])) =>
                /\ \/ fetch[t] = "searching" /\ lookup[t] = "none" /\ lookup'[t] # "none"
                   \/ fetch[t] = "downloading" /\ proc[t] = "running"
                /\ \A u \in DOMAIN fetch \ {t} :
                      Settled(fetch'[u]) => Settled(fetch[u])]_vars

\* C24 witness: of two tracks of one page the later one has its outcome
\* reported while the earlier one is still in flight.
C24_Witness ==
    \E a, b \in Scheduled :
        /\ a < b /\ FrameOf(a) = FrameOf(b)
        /\ InFlight(fetch[a]) /\ fetch[b] = "downloaded"

\* The download of the running cycle is under way: startPrompts awaits it.
Downloading == pc \in {"get", "page", "join", "trackget", "single"}

\* C25: the loop of startPrompts runs one cycle at a time. A download starts
\* only out of the prompt; the confirm is asked only out of a download that
\* has returned, with none of its calls in flight; a new prompt follows only
\* the start of the client or an accepted confirm, whatever the download
\* ended with; once the operator has declined, the process has exited and no
\* cycle follows.
C25_OneCycleAtATime ==
    /\ [](pc = "confirm" =>
             /\ outcome = "returned"
             /\ pending = NoNext
             /\ InFlightTracks = {})
    /\ [][/\ (Downloading' /\ ~Downloading) => pc = "prompt"
          /\ (pc' = "confirm" /\ pc # "confirm") => (Downloading \/ pc = "prompt")
          /\ (pc' = "prompt" /\ pc # "prompt") => pc \in {"start", "confirm"}
          /\ (pc' = "exited" /\ pc # "exited") => pc = "confirm"
          /\ pc = "exited" => pc' = "exited"]_vars

\* C25 witness: the operator declined after a download whose track lookup
\* had failed, and the process has exited.
C25_Witness ==
    /\ pc = "exited" /\ outcome = "returned" /\ failed = "trackget"

\* C30: the normalization of sortVideos is monotone across units: of two
\* videos with the same count N, the one whose unit is the shorter never has
\* the greater normalized age.
C30_MonotoneAcrossUnits ==
    \A i, j \in DOMAIN candidates :
        (/\ pc = "ranked"
         /\ candidates[i].ago # <<>> /\ candidates[j].ago # <<>>
         /\ candidates[i].ago[1] = candidates[j].ago[1]
         /\ candidates[i].ago[2] \in AgoWords /\ candidates[j].ago[2] \in AgoWords
         /\ UnitOrder(candidates[i].ago[2]) < UnitOrder(candidates[j].ago[2])) =>
            getTimeValue(candidates[i].ago) <= getTimeValue(candidates[j].ago)

\* C26: download dispatches on the type of the parsed URL. A track URL makes
\* one track lookup, out of the prompt, and then one call of
\* searchInYoutubeAndDownload with the directory given, and no page request;
\* a playlist or album URL goes through get, the pages and downloadMassive
\* and never through the track lookup; an unknown URL makes no catalog
\* request and no fetch, logs 'Invalid URL' and returns.
C26_DispatchByKind ==
    /\ [](/\ kind = "track" =>
               /\ requests = <<>> /\ frames = <<>> /\ Len(fetch) = 1
               /\ pc \notin {"get", "page", "join"}
               /\ logged # <<>> /\ logged[1] = SearchingFor("track")
               /\ fetch[1] # "none" =>
                     /\ failed = "none"
                     /\ dir = "dir"
                     /\ logged = <<SearchingFor("track"), Found("track")>>
          /\ IsCollection =>
               /\ pc \notin {"trackget", "single"}
               /\ logged # <<>> /\ logged[1] = SearchingFor(kind)
               /\ level > 0 => dir = "dir/name"
          /\ kind = "unknown" =>
               /\ pc \in {"confirm", "exited"}
               /\ outcome = "returned" /\ failed = "none"
               /\ requests = <<>> /\ fetch = <<>>
               /\ logged = <<InvalidURL>>)
    /\ [][/\ (pc' = "trackget" /\ pc # "trackget") => (pc = "prompt" /\ kind' = "track")
          /\ (pc' = "single" /\ pc # "single") => pc = "trackget"
          /\ (pc' = "get" /\ pc # "get") => (pc = "prompt" /\ kind' \in {"playlist", "album"})
          /\ (kind' = "unknown" /\ kind # "unknown") => (pc = "prompt" /\ pc' = "confirm")]_vars

\* C26 witness: an unknown URL was reported as invalid and the confirm is
\* asked.
C26_Witness ==
    /\ kind = "unknown" /\ pc = "confirm" /\ logged = <<InvalidURL>>

\* C21: a request to the catalog bears the token that is current when the
\* request is built: the request a method sends has the value of
\* global.spotifyToken of that moment, so that once refreshToken has replaced
\* the token no request built later bears the value replaced, also when the
\* token was replaced while an earlier request was awaited.
C21_BearsCurrentToken ==
    [][(call' # call /\ Awaited') => (call'.bearer = token /\ token' = token)]_vars

\* C21 witness: after refreshToken has replaced the first token, a request
\* is awaited that bears the second one.
C21_Witness ==
    /\ Awaited /\ call.bearer = 2 /\ token = 2

\* C29: once start has completed there is always a refresh of the token
\* scheduled or in flight, a failed scheduled refresh being followed by
\* another.
C29_RefreshAlwaysPending ==
    started => timer \in {"scheduled", "inflight"}

\* C31: for a URL of type 'artist' download makes no catalog request,
\* schedules no fetch, logs nothing and returns normally to the confirm.
C31_ArtistDoesNothing ==
    kind = "artist" =>
        /\ pc \in {"confirm", "exited"}
        /\ outcome = "returned" /\ failed = "none"
        /\ requests = <<>> /\ pending = NoNext /\ frames = <<>>
        /\ items = <<>> /\ fetch = <<>> /\ proc = <<>>
        /\ logged = <<>> /\ dir = "none"

\* C31 witness: download has returned for an artist URL and the confirm is
\* asked.
C31_Witness ==
    /\ kind = "artist" /\ pc = "confirm" /\ outcome = "returned"

\* --------------------------------------- observations on the folder prompt
\* Directory p is directory q or a directory below it.
Within(p, q) == Len(q) <= Len(p) /\ SubSeq(p, 1, Len(q)) = q

\* C32: in the folder prompt the current directory is the user's home
\* directory or a directory below it, after any sequence of keypresses.
C32_StaysWithinHome ==
    pc = "folder" => Within(currentDir, userHomeDir)

\* C33: in the folder prompt the cursor is never negative and, whenever the
\* current directory lists a folder, it is the index of a listed folder;
\* also after up or down in a directory that lists none.
C33_CursorInRange ==
    pc = "folder" =>
        /\ cursor >= 0
        /\ getFolderChoices(currentDir) # <<>> =>
              cursor < Len(getFolderChoices(currentDir))

\* The values of the choices of a directory.
Listed(d) == {getFolderChoices(d)[k].value : k \in DOMAIN getFolderChoices(d)}

\* C34: a folder without write permission is neither entered with space nor
\* chosen with return: the prompt completes only with a writable folder
\* listed in the current directory, at most once, and once it has completed
\* no keypress changes the current directory, the cursor or the selection.
C34_RestrictedNeverChosen ==
    /\ [](selected # <<>> =>
             (selected \in Listed(currentDir) /\ selected \notin readOnly))
    /\ [][/\ selected # <<>> => UNCHANGED <<currentDir, cursor, selected>>
          /\ (currentDir' # currentDir /\ currentDir' \in Listed(currentDir)) =>
                currentDir' \notin readOnly
          /\ selected' # selected =>
                (selected' \in Listed(currentDir) /\ selected' \notin readOnly)]_vars

\* C34 witness: in the home directory, where the folder Music is without
\* write permission, the prompt has completed with the folder Videos.
C34_Witness ==
    /\ currentDir = userHomeDir
    /\ Append(userHomeDir, MusicName) \in readOnly
    /\ selected = Append(userHomeDir, VideosName)

====
